---- MODULE Spec2Model ----
(***************************************************************************)
(* Municipality resolution and count cache of the Chatbot PED service     *)
(* (src/main.py).  Strings are sequences of one-character strings; an     *)
(* ordered dict (the count snapshot) is a sequence of [k, v] records in   *)
(* insertion order; Optional[str] is a sequence of zero or one strings.   *)
(***************************************************************************)
EXTENDS Integers, Sequences, FiniteSets, TLC

VARIABLES
    cache_counts,      \* _cache_counts: the snapshot (ordered dict)
    cache_last_fetch,  \* _cache_last_fetch
    clock,             \* time.time()
    url_set,           \* bool(SHEETS_CSV_URL), fixed at start-up
    pc,                \* per handler: "idle" or "fetching" (awaiting client.get)
    now,               \* per handler: the local `now` of the running call
    ret,               \* per handler: the value last returned by get_counts_cached
    outcome,           \* per handler: how the last call ended
    trace,             \* history of call events, in order
    fn,                \* the matcher function applied last
    arg,               \* its text argument
    out,               \* its result
    table,             \* the rows of user_municipio
    admin,             \* ADMIN_CHAT_ID, fixed at start-up
    h,                 \* per handler: the locals of a suspended municipio branch
    msgs,              \* number of updates received so far
    sent,              \* the message sent by the last step, if any
    secret,            \* WEBHOOK_SECRET, fixed at start-up ("" when not configured)
    header             \* the secret-token header of the update this step received

cachevars == <<cache_counts, cache_last_fetch, clock, url_set, pc, now, ret,
               outcome, trace>>

matchvars == <<fn, arg, out>>

gatevars == <<secret, header>>

chatvars == <<table, admin, h, msgs, sent, gatevars>>

vars == <<cachevars, matchvars, chatvars>>

-----------------------------------------------------------------------------
(* Bounds *)

NumProcs == 2
MaxCalls == 2
MaxTicks == 3
MaxLen == 3
MaxKeys == 2

(* Program constants *)

SHEETS_CACHE_TTL == 2

-----------------------------------------------------------------------------
(* Strings *)

Alphabet == {"a", "b", "A", " "}

LowerChar(c) ==
    CASE c = "A" -> "a"
      [] c = "S" -> "s"
      [] OTHER -> c

lower(s) == [i \in 1..Len(s) |-> LowerChar(s[i])]

RECURSIVE lstrip(_)
lstrip(s) == IF s # <<>> /\ Head(s) = " " THEN lstrip(Tail(s)) ELSE s

RECURSIVE rstrip(_)
rstrip(s) ==
    IF s # <<>> /\ s[Len(s)] = " " THEN rstrip(SubSeq(s, 1, Len(s) - 1)) ELSE s

strip(s) == rstrip(lstrip(s))

normalize(s) == lower(strip(s))

\* Python's `sub in s` on strings
Contains(sub, s) ==
    \E i \in 0..(Len(s) - Len(sub)) : SubSeq(s, i + 1, i + Len(sub)) = sub

Min2(x, y) == IF x <= y THEN x ELSE y

\* one row of the table: curr, grown from <<i>> by one entry per character of b
RECURSIVE LevRow(_, _, _, _)
LevRow(prev, curr, ca, b) ==
    LET j == Len(curr)
    IN IF j > Len(b) THEN curr
       ELSE LET ins  == prev[j + 1] + 1
                dele == curr[j] + 1
                sub  == prev[j] + (IF ca # b[j] THEN 1 ELSE 0)
            IN LevRow(prev, Append(curr, Min2(ins, Min2(dele, sub))), ca, b)

RECURSIVE LevRows(_, _, _, _)
LevRows(a, b, i, prev) ==
    IF i > Len(a) THEN prev
    ELSE LevRows(a, b, i + 1, LevRow(prev, <<i>>, a[i], b))

\* the distance taken on the strings as they are, letter case included
levenshtein_cased(a, b) ==
    IF a = b THEN 0
    ELSE IF a = <<>> THEN Len(b)
    ELSE IF b = <<>> THEN Len(a)
    ELSE LevRows(a, b, 1, [j \in 1..(Len(b) + 1) |-> j - 1])[Len(b) + 1]

_levenshtein(a0, b0) ==
    LET a == lower(a0)
        b == lower(b0)
    IN IF a = b THEN 0
       ELSE IF a = <<>> THEN Len(b)
       ELSE IF b = <<>> THEN Len(a)
       ELSE LevRows(a, b, 1, [j \in 1..(Len(b) + 1) |-> j - 1])[Len(b) + 1]

None == <<>>

Some(x) == <<x>>

\* the loop of closest_match from option i on; best is None or Some(option)
RECURSIVE BestFrom(_, _, _, _, _)
BestFrom(query, opciones, i, best, best_d) ==
    IF i > Len(opciones) THEN [best |-> best, best_d |-> best_d]
    ELSE LET d == _levenshtein(query, opciones[i])
         IN IF d < best_d
            THEN BestFrom(query, opciones, i + 1, Some(opciones[i]), d)
            ELSE BestFrom(query, opciones, i + 1, best, best_d)

\* the same loop with `d <= best_d`: the last option wins a tie
RECURSIVE BestFromLast(_, _, _, _, _)
BestFromLast(query, opciones, i, best, best_d) ==
    IF i > Len(opciones) THEN [best |-> best, best_d |-> best_d]
    ELSE LET d == _levenshtein(query, opciones[i])
         IN IF d <= best_d
            THEN BestFromLast(query, opciones, i + 1, Some(opciones[i]), d)
            ELSE BestFromLast(query, opciones, i + 1, best, best_d)

closest_match_last(query0, opciones, max_dist) ==
    LET query == strip(query0)
    IN IF query = <<>> \/ opciones = <<>> THEN None
       ELSE LET r == BestFromLast(query, opciones, 1, None, 999)
            IN IF r.best_d <= max_dist THEN r.best ELSE None

closest_match(query0, opciones, max_dist) ==
    LET query == strip(query0)
    IN IF query = <<>> \/ opciones = <<>> THEN None
       ELSE LET r == BestFrom(query, opciones, 1, None, 999)
            IN IF r.best_d <= max_dist THEN r.best ELSE None

SinMunicipio ==
    <<"(", "S", "i", "n", " ", "m", "u", "n", "i", "c", "i", "p", "i", "o", ")">>

-----------------------------------------------------------------------------
(* Ordered dicts *)

Keys(d) == [i \in 1..Len(d) |-> d[i].k]

HasKey(d, key) == \E i \in 1..Len(d) : d[i].k = key

\* counts[mun] = counts.get(mun, 0) + 1
Increment(d, key) ==
    IF HasKey(d, key)
    THEN [i \in 1..Len(d) |-> IF d[i].k = key THEN [k |-> key, v |-> d[i].v + 1]
                                               ELSE d[i]]
    ELSE Append(d, [k |-> key, v |-> 1])

RECURSIVE CountFrom(_, _)
CountFrom(counts, cells) ==
    IF cells = <<>> THEN counts
    ELSE LET mun == strip(Head(cells))
             key == IF mun = <<>> THEN SinMunicipio ELSE mun
         IN CountFrom(Increment(counts, key), Tail(cells))

\* the counting loop over the rows of the unit column
CountRows(cells) == CountFrom(<<>>, cells)

-----------------------------------------------------------------------------
(* Count lookup and name resolution *)

\* for k, v in counts.items(): if normalize(k) == tgt: return v
RECURSIVE FirstExact(_, _, _)
FirstExact(counts, tgt, i) ==
    IF i > Len(counts) THEN None
    ELSE IF normalize(counts[i].k) = tgt THEN Some(counts[i].v)
    ELSE FirstExact(counts, tgt, i + 1)

\* for k, v in counts.items(): if tgt and tgt in normalize(k): return v
RECURSIVE FirstContaining(_, _, _)
FirstContaining(counts, tgt, i) ==
    IF i > Len(counts) THEN None
    ELSE IF tgt # <<>> /\ Contains(tgt, normalize(counts[i].k)) THEN Some(counts[i].v)
    ELSE FirstContaining(counts, tgt, i + 1)

\* the lookup comparing the raw key with the normalized name
municipio_count_raw_key(nombre, counts) ==
    LET tgt == normalize(nombre)
        hit == {i \in 1..Len(counts) : counts[i].k = tgt}
        sub == FirstContaining(counts, tgt, 1)
    IN IF hit # {} THEN counts[CHOOSE i \in hit : \A j \in hit : i <= j].v
       ELSE IF sub # None THEN sub[1] ELSE 0

\* get_municipio_count on the snapshot get_counts_cached returned
get_municipio_count(nombre, counts) ==
    LET tgt   == normalize(nombre)
        exact == FirstExact(counts, tgt, 1)
        sub   == FirstContaining(counts, tgt, 1)
    IN IF exact # None THEN exact[1]
       ELSE IF sub # None THEN sub[1]
       ELSE 0

\* the loop of the municipio branch that picks `elegido` among the snapshot keys
RECURSIVE Elegido(_, _, _)
Elegido(nombre, names, i) ==
    IF i > Len(names) THEN None
    ELSE IF \/ normalize(names[i]) = normalize(nombre)
            \/ Contains(normalize(nombre), normalize(names[i]))
         THEN Some(names[i])
    ELSE Elegido(nombre, names, i + 1)

\* the municipio branch up to the choice between match and suggestion
Resolve(nombre, names) ==
    LET elegido == Elegido(nombre, names, 1)
    IN [elegido  |-> elegido,
        sugerido |-> IF elegido = None THEN closest_match(nombre, names, 2) ELSE None]

-----------------------------------------------------------------------------
(* The remote sheet: what a 200 response can hold *)

\* SHEETS_FIELD_MUNICIPIO ("Municipio"), stripped when the configuration is read
SHEETS_FIELD_MUNICIPIO == <<"A", "b">>

\* d[key] = value on an ordered dict: a key already present keeps its place
Put(d, key, value) ==
    IF HasKey(d, key)
    THEN [i \in 1..Len(d) |-> IF d[i].k = key THEN [k |-> key, v |-> value] ELSE d[i]]
    ELSE Append(d, [k |-> key, v |-> value])

\* {(h or "").lower().strip(): (h or "") for h in fieldnames}
RECURSIVE HeadersMapFrom(_, _)
HeadersMapFrom(d, fieldnames) ==
    IF fieldnames = <<>> THEN d
    ELSE HeadersMapFrom(Put(d, strip(lower(Head(fieldnames))), Head(fieldnames)),
                        Tail(fieldnames))

HeadersMap(fieldnames) == HeadersMapFrom(<<>>, fieldnames)

\* headers_map.get(key)
Get(d, key) ==
    IF HasKey(d, key) THEN Some(d[CHOOSE i \in 1..Len(d) : d[i].k = key].v) ELSE None

\* for k, v in headers_map.items(): if name in k: field_actual = v; break
RECURSIVE FirstHeaderContaining(_, _, _)
FirstHeaderContaining(d, name, i) ==
    IF i > Len(d) THEN None
    ELSE IF Contains(name, d[i].k) THEN Some(d[i].v)
    ELSE FirstHeaderContaining(d, name, i + 1)

\* `not field_actual`: None or the empty string
Falsy(opt) == opt = None \/ opt = Some(<<>>)

\* the column lookup: None, or Some(header) for the header the rows are read by
FieldActual(fieldnames) ==
    LET headers_map == HeadersMap(fieldnames)
        name        == lower(SHEETS_FIELD_MUNICIPIO)
        exact       == Get(headers_map, name)
        found       == IF Falsy(exact) THEN FirstHeaderContaining(headers_map, name, 1)
                       ELSE exact
    IN IF Falsy(found) THEN None ELSE found

\* row.get(field) or "" on the dict csv.DictReader builds: the value under the
\* last column named field, "" when the row does not reach that column
RowValue(fieldnames, row, field) ==
    LET i == CHOOSE c \in 1..Len(fieldnames) :
                 /\ fieldnames[c] = field
                 /\ \A e \in 1..Len(fieldnames) : fieldnames[e] = field => e <= c
    IN IF i <= Len(row) THEN row[i] ELSE <<>>

\* the rows csv.DictReader yields: an empty line (no field at all) is passed over
RECURSIVE DictRows(_)
DictRows(rows) ==
    IF rows = <<>> THEN <<>>
    ELSE IF Head(rows) = <<>> THEN DictRows(Tail(rows))
    ELSE <<Head(rows)>> \o DictRows(Tail(rows))

\* the values of the unit column, one per row the reader yields
Cells(body, field) ==
    LET rows == DictRows(body.rows)
    IN [i \in 1..Len(rows) |-> RowValue(body.fieldnames, rows[i], field)]

\* a body is the header row and the data rows csv.reader splits the text into
Bodies ==
    { [fieldnames |-> << <<"b">> >>,
       rows |-> << << <<"a">> >> >>],
      [fieldnames |-> << SHEETS_FIELD_MUNICIPIO >>,
       rows |-> <<>>],
      [fieldnames |-> << SHEETS_FIELD_MUNICIPIO >>,
       rows |-> << << <<"a">> >>, << <<"a", " ">> >> >>],
      [fieldnames |-> << <<"b">>, <<" ", "a", "b">> >>,
       rows |-> << << <<"a">>, <<"b">> >>, << <<"a">>, <<" ">> >>, << <<"b">>, <<"a">> >> >>] }

\* fetch_counts_from_sheets after a 200 response: column lookup, then count
ParseBody(body) ==
    LET field_actual == FieldActual(body.fieldnames)
    IN IF field_actual = None THEN <<>>
       ELSE CountRows(Cells(body, field_actual[1]))

\* the parse of every body, worked out once
Parsed == [body \in Bodies |-> ParseBody(body)]

\* the complete count maps a single fetch-and-parse can produce
FetchResults == {Parsed[body] : body \in Bodies} \ {<<>>}

-----------------------------------------------------------------------------
(* get_counts_cached *)

Procs == 1..NumProcs

T0 == SHEETS_CACHE_TTL + 1

\* the age test turned around
NeedsRefreshFlipped(f, t) ==
    f \/ (t - cache_last_fetch < SHEETS_CACHE_TTL) \/ cache_counts = <<>>

\* the force argument ignored
NeedsRefreshNoForce(f, t) ==
    (t - cache_last_fetch > SHEETS_CACHE_TTL) \/ cache_counts = <<>>

NeedsRefresh(f, t) ==
    f \/ (t - cache_last_fetch > SHEETS_CACHE_TTL) \/ cache_counts = <<>>

\* the result stored even when it is empty
CommitAlways(old, d, t) == [counts |-> d, last |-> t]

\* the snapshot swapped, the timestamp left alone
CommitKeepsTime(old, d, t) ==
    IF d # <<>> THEN [counts |-> d, last |-> old.last] ELSE old

\* the new rows added to the old snapshot instead of replacing it
CommitMerge(old, d, t) ==
    IF d # <<>> THEN [counts |-> old.counts \o d, last |-> t] ELSE old

\* if data: swap snapshot and timestamp; else keep the last valid cache
Commit(old, d, t) ==
    IF d # <<>> THEN [counts |-> d, last |-> t] ELSE old

Cache == [counts |-> cache_counts, last |-> cache_last_fetch]

\* trace events: "S"/"Sf" a call starts a refresh cycle (Sf: with force=True),
\* "H" a call returns the snapshot without a refresh, "K" a refresh cycle ends
\* with the swap, "F" a refresh cycle ends without it
Count(evs) == Cardinality({i \in 1..Len(trace) : trace[i] \in evs})

CallsStarted == Count({"S", "Sf", "H"})

\* refresh cycles started so far: calls of fetch_counts_from_sheets
Fetches == Count({"S", "Sf"})

\* the handler never resumed after the fetch: the cache is updated, the call
\* does not return
FinishLost(p, d) ==
    LET new == Commit(Cache, d, now[p])
    IN /\ cache_counts' = new.counts
       /\ cache_last_fetch' = new.last
       /\ now' = [now EXCEPT ![p] = 0]
       /\ ret' = [ret EXCEPT ![p] = new.counts]
       /\ outcome' = [outcome EXCEPT ![p] = IF d # <<>> THEN "swapped" ELSE "failed"]
       /\ pc' = [pc EXCEPT ![p] = "lost"]

\* the end of a refresh cycle of handler p whose fetch produced d
Finish(p, d) ==
    LET new == Commit(Cache, d, now[p])
    IN /\ cache_counts' = new.counts
       /\ cache_last_fetch' = new.last
       /\ now' = [now EXCEPT ![p] = 0]
       /\ ret' = [ret EXCEPT ![p] = new.counts]
       /\ outcome' = [outcome EXCEPT ![p] = IF d # <<>> THEN "swapped" ELSE "failed"]
       /\ pc' = [pc EXCEPT ![p] = "idle"]

\* get_counts_cached(force=f) entered by handler p, up to its first await or
\* its return
GetCountsCached(p, f) ==
    /\ pc[p] = "idle"
    /\ CallsStarted < MaxCalls
    /\ UNCHANGED <<matchvars, chatvars>>
    /\ IF NeedsRefresh(f, clock)
       THEN IF url_set
            THEN /\ pc' = [pc EXCEPT ![p] = "fetching"]
                 /\ outcome' = [outcome EXCEPT ![p] = "pending"]
                 /\ now' = [now EXCEPT ![p] = clock]
                 /\ trace' = Append(trace, IF f THEN "Sf" ELSE "S")
                 /\ UNCHANGED <<cache_counts, cache_last_fetch, ret>>
            ELSE \* fetch_counts_from_sheets returns {} without suspending
                 /\ LET new == Commit(Cache, <<>>, clock)
                    IN /\ cache_counts' = new.counts
                       /\ cache_last_fetch' = new.last
                       /\ ret' = [ret EXCEPT ![p] = new.counts]
                 /\ outcome' = [outcome EXCEPT ![p] = "failed"]
                 /\ trace' = trace \o <<IF f THEN "Sf" ELSE "S", "F">>
                 /\ UNCHANGED <<pc, now>>
       ELSE /\ ret' = [ret EXCEPT ![p] = cache_counts]
            /\ outcome' = [outcome EXCEPT ![p] = "hit"]
            /\ trace' = Append(trace, "H")
            /\ UNCHANGED <<cache_counts, cache_last_fetch, pc, now>>
    /\ UNCHANGED <<clock, url_set>>

\* network error, timeout, non-200 status: fetch_counts_from_sheets returns {}
FetchFails(p) ==
    /\ pc[p] = "fetching"
    /\ Finish(p, <<>>)
    /\ trace' = Append(trace, "F")
    /\ UNCHANGED <<clock, url_set, matchvars, chatvars>>

\* a 200 response holding body
FetchAnswers(p, body) ==
    /\ pc[p] = "fetching"
    /\ Finish(p, Parsed[body])
    /\ trace' = Append(trace, IF Parsed[body] # <<>> THEN "K" ELSE "F")
    /\ UNCHANGED <<clock, url_set, matchvars, chatvars>>

Tick ==
    /\ clock < T0 + MaxTicks
    /\ clock' = clock + 1
    /\ UNCHANGED <<cache_counts, cache_last_fetch, url_set, pc, now, ret, outcome,
                   trace, matchvars, chatvars>>

\* the locals of a handler that is not inside the municipio branch
IdleH == [at |-> "idle", chat |-> 0, nombre |-> <<>>, ya |-> None, elegido |-> None]

\* no registration stored, no update received
NoChat ==
    /\ table = {}
    /\ admin = 0
    /\ h = [p \in Procs |-> IdleH]
    /\ msgs = 0
    /\ sent = None
    /\ secret = <<>>
    /\ header = None

Init ==
    /\ cache_counts = <<>>
    /\ cache_last_fetch = 0
    /\ clock = T0
    /\ url_set \in BOOLEAN
    /\ pc = [p \in Procs |-> "idle"]
    /\ now = [p \in Procs |-> 0]
    /\ ret = [p \in Procs |-> <<>>]
    /\ outcome = [p \in Procs |-> "none"]
    /\ trace = <<>>
    /\ fn = "none"
    /\ arg = <<>>
    /\ out = None
    /\ NoChat

Next ==
    \/ \E p \in Procs, f \in BOOLEAN : GetCountsCached(p, f)
    \/ \E p \in Procs : FetchFails(p)
    \/ \E p \in Procs, body \in Bodies : FetchAnswers(p, body)
    \/ Tick

Spec == Init /\ [][Next]_vars

-----------------------------------------------------------------------------
(* Steps of get_counts_cached, as seen from outside *)

AllIdle == \A p \in Procs : pc[p] = "idle"

\* handler p ends a refresh cycle whose fetch failed or parsed to the empty map
RefreshFails(p) ==
    \/ FetchFails(p)
    \/ \E body \in Bodies : Parsed[body] = <<>> /\ FetchAnswers(p, body)
    \/ ~url_set /\ \E f \in BOOLEAN : NeedsRefresh(f, clock) /\ GetCountsCached(p, f)

\* handler p ends a refresh cycle whose fetch and parse gave the non-empty map d
RefreshYields(p, d) ==
    \E body \in Bodies : Parsed[body] = d /\ d # <<>> /\ FetchAnswers(p, body)

CacheUnchanged ==
    cache_counts' = cache_counts /\ cache_last_fetch' = cache_last_fetch

\* C1: a refresh cycle that fails, or parses to the empty map, leaves snapshot
\* and fetchedAt as they were and returns that snapshot, which is the empty
\* map while no fetch has succeeded; no step of a call other than the end of a
\* successful non-empty refresh writes either of them.
StaleFallback ==
    [][/\ \A p \in Procs :
            RefreshFails(p) =>
                /\ CacheUnchanged
                /\ ret'[p] = cache_counts
                /\ (Count({"K"}) = 0 => ret'[p] = <<>>)
       /\ ~CacheUnchanged => \E p \in Procs, d \in FetchResults : RefreshYields(p, d)]_vars

StaleFallbackWitness ==
    \E p \in Procs :
        /\ pc[p] = "idle"
        /\ outcome[p] = "failed"
        /\ ret[p] # <<>>
        /\ ret[p] = cache_counts
        /\ trace[Len(trace)] = "F"

\* C2: at most one outbound fetch is in flight at any time.
SingleFlight == Cardinality({p \in Procs : pc[p] = "fetching"}) <= 1

(* Fresh and Stale as the specification defines them *)
Age == clock - cache_last_fetch

SpecFresh == cache_counts # <<>> /\ Age < SHEETS_CACHE_TTL

SpecStale == cache_counts = <<>> \/ Age >= SHEETS_CACHE_TTL

\* two get_counts_cached(False) calls, and nothing else, have run to their end
\* within one TTL window since the empty initial cache
TwoCallsInWindow ==
    /\ AllIdle
    /\ CallsStarted = 2
    /\ Count({"Sf"}) = 0
    /\ clock - T0 < SHEETS_CACHE_TTL

\* C3 as stated: two get_counts_cached(False) calls within one TTL window from
\* the empty initial cache trigger exactly one fetch in total (here with the
\* sheet URL configured and the second call made after the first has returned).
TwoCallsOneFetch ==
    (url_set /\ TwoCallsInWindow /\ trace[2] \in {"F", "K"}) => Fetches = 1

\* C3 amended: a get_counts_cached(False) call made while Fresh performs no
\* fetch, leaves the cache unchanged and returns the snapshot; two such calls
\* within one TTL window from the empty initial cache trigger one fetch when
\* the second starts after the first has ended in a successful non-empty
\* refresh, and two otherwise.
FreshGating ==
    [][/\ \A p \in Procs :
            (SpecFresh /\ GetCountsCached(p, FALSE)) =>
                /\ CacheUnchanged
                /\ Fetches' = Fetches
                /\ pc'[p] = "idle"
                /\ ret'[p] = cache_counts
       /\ TwoCallsInWindow' =>
            /\ Fetches' \in {1, 2}
            /\ Fetches' = 1 <=> trace' = <<"S", "K", "H">>]_vars

FreshGatingWitness ==
    /\ TwoCallsInWindow
    /\ trace = <<"S", "K", "H">>
    /\ \E p \in Procs : outcome[p] = "hit" /\ ret[p] = cache_counts

\* C4 as stated: a get_counts_cached(False) call at age >= TTL or with no
\* snapshot, and every get_counts_cached(True) call, starts exactly one
\* fetch-and-parse cycle.
StaleRefreshAtTTL ==
    [][\A p \in Procs, f \in BOOLEAN :
         ((f \/ SpecStale) /\ GetCountsCached(p, f)) => Fetches' = Fetches + 1]_vars

\* C4 amended: a get_counts_cached(False) call at age > TTL or with an empty
\* snapshot, and every get_counts_cached(True) call, starts exactly one
\* fetch-and-parse cycle; no other step starts one.
StaleRefresh ==
    [][/\ \A p \in Procs, f \in BOOLEAN :
            ((f \/ cache_counts = <<>> \/ Age > SHEETS_CACHE_TTL)
                /\ GetCountsCached(p, f)) => Fetches' = Fetches + 1
       /\ Fetches' # Fetches =>
            /\ Fetches' = Fetches + 1
            /\ \E p \in Procs, f \in BOOLEAN : GetCountsCached(p, f)
       /\ \A p \in Procs : pc[p] = "fetching" /\ pc'[p] = "idle" => Fetches' = Fetches]_vars

StaleRefreshWitness ==
    \E p \in Procs :
        /\ pc[p] = "fetching"
        /\ cache_counts # <<>>
        /\ now[p] = clock
        /\ now[p] - cache_last_fetch > SHEETS_CACHE_TTL
        /\ trace[Len(trace)] = "S"

\* C5 as stated: a successful refresh sets fetchedAt to the time of the
\* replacement, so the cache is Fresh when the call returns.
SwapStampsCurrentTime ==
    [][\A p \in Procs :
         (\E d \in FetchResults : RefreshYields(p, d)) =>
            cache_last_fetch' = clock /\ SpecFresh']_vars

\* C5 amended: a successful refresh replaces the snapshot with the fetched map
\* and sets fetchedAt to the time read when the call started; the call returns
\* the fetched map, and the cache is Fresh at that moment if less than TTL has
\* passed since the call started.
SuccessfulRefresh ==
    [][\A p \in Procs, d \in FetchResults :
         RefreshYields(p, d) =>
            /\ cache_counts' = d
            /\ ret'[p] = d
            /\ cache_last_fetch' = now[p]
            /\ (clock - now[p] < SHEETS_CACHE_TTL <=> SpecFresh')]_vars

SuccessfulRefreshWitness ==
    \E p \in Procs :
        /\ pc[p] = "idle"
        /\ outcome[p] = "swapped"
        /\ trace[Len(trace)] = "K"
        /\ ret[p] = cache_counts
        /\ clock - cache_last_fetch >= SHEETS_CACHE_TTL

\* C6: the snapshot, and every value get_counts_cached returns, is the empty
\* initial map or the complete map of one single successful fetch-and-parse,
\* the one that completed last; only a successful refresh changes it.
WholesaleSnapshot ==
    [][/\ cache_counts' \in FetchResults \cup {<<>>}
       /\ \A p \in Procs : ret'[p] \in FetchResults \cup {<<>>}
       /\ \A p \in Procs, d \in FetchResults :
            RefreshYields(p, d) => cache_counts' = d /\ ret'[p] = d
       /\ cache_counts' # cache_counts =>
            \E p \in Procs, d \in FetchResults : RefreshYields(p, d)
       /\ Count({"K"})' = 0 => cache_counts' = <<>>]_vars

WholesaleSnapshotWitness ==
    /\ Count({"K"}) >= 2
    /\ \E p, q \in Procs :
        /\ outcome[p] = "swapped" /\ outcome[q] = "swapped"
        /\ ret[p] # ret[q]
        /\ cache_counts = ret[q]

\* nombres = list(_cache_counts.keys()): the candidates a name is resolved against
nombres == Keys(cache_counts)

\* C10: the candidate list is the same in every reachable state.
FixedCandidates == [][nombres' = nombres]_vars

-----------------------------------------------------------------------------
(* Termination of get_counts_cached: the HTTP request of line 88 carries     *)
(* timeout=60, so the await ends with a response or with an exception.       *)

SpecLive ==
    Spec /\ \A p \in Procs :
                WF_vars(FetchFails(p) \/ \E body \in Bodies : FetchAnswers(p, body))

\* C16: a get_counts_cached call suspended at the fetch eventually returns a
\* snapshot, and a fetch that times out ends the call on the failure path:
\* snapshot and timestamp stay as they were and the snapshot is returned.
NoIndefiniteBlocking ==
    /\ \A p \in Procs :
          (pc[p] = "fetching") ~>
              (pc[p] = "idle" /\ outcome[p] \in {"swapped", "failed"}
                              /\ ret[p] = cache_counts)
    /\ [][\A p \in Procs : FetchFails(p) => (CacheUnchanged /\ ret'[p] = cache_counts)]_vars

\* of two calls suspended at the fetch, one has returned the snapshot after
\* its fetch failed and the other is still suspended
NoIndefiniteBlockingWitness ==
    \E p, q \in Procs :
        /\ pc[p] = "idle"
        /\ outcome[p] = "failed"
        /\ ret[p] = cache_counts
        /\ pc[q] = "fetching"
        /\ trace = <<"S", "S", "F">>

\* C19: the cache timestamp never goes backwards, whatever the order in
\* which overlapping refreshes complete.
TimestampMonotonic == [][cache_last_fetch' >= cache_last_fetch]_vars

-----------------------------------------------------------------------------
(* The matcher and the count lookup applied to bounded inputs: the snapshot  *)
(* is any ordered map over Catalog, the texts are all strings up to MaxLen; *)
(* each behaviour applies one function to one input.                        *)

Strings == UNION {[1..n -> Alphabet] : n \in 0..MaxLen}

\* texts as extract_municipio hands them on: stripped and not empty
Nombres == {t \in Strings : t # <<>> /\ strip(t) = t}

\* raw labels a sheet may hold, as the counting loop keys them
Catalog ==
    { <<"a">>, <<"A">>, <<"a", "b">>, <<"b", "a">>, SinMunicipio }

KeyLists ==
    {ks \in UNION {[1..n -> Catalog] : n \in 0..MaxKeys} :
        \A i, j \in 1..Len(ks) : i # j => ks[i] # ks[j]}

SnapshotOf(ks) == [i \in 1..Len(ks) |-> [k |-> ks[i], v |-> i]]

MaxDists == {1, 2}

InitMatch ==
    /\ cache_counts \in {SnapshotOf(ks) : ks \in KeyLists}
    /\ cache_last_fetch = T0
    /\ clock = T0
    /\ url_set = TRUE
    /\ pc = [p \in Procs |-> "idle"]
    /\ now = [p \in Procs |-> 0]
    /\ ret = [p \in Procs |-> <<>>]
    /\ outcome = [p \in Procs |-> "none"]
    /\ trace = <<>>
    /\ fn = "none"
    /\ arg = <<>>
    /\ out = None
    /\ NoChat

\* get_municipio_count(nombre) on the snapshot get_counts_cached hands back
Consultar(nombre) ==
    /\ fn = "none"
    /\ fn' = "count"
    /\ arg' = nombre
    /\ out' = get_municipio_count(nombre, cache_counts)
    /\ UNCHANGED <<cachevars, chatvars>>

\* the municipio branch resolving nombre against the snapshot keys
Municipio(nombre) ==
    /\ fn = "none"
    /\ fn' = "resolve"
    /\ arg' = nombre
    /\ out' = Resolve(nombre, Keys(cache_counts))
    /\ UNCHANGED <<cachevars, chatvars>>

\* closest_match(query, list(_cache_counts.keys()), max_dist)
Sugerir(query, max_dist) ==
    /\ fn = "none"
    /\ fn' = "closest"
    /\ arg' = query
    /\ out' = [best     |-> closest_match(query, Keys(cache_counts), max_dist),
               max_dist |-> max_dist]
    /\ UNCHANGED <<cachevars, chatvars>>

NextMatch ==
    \/ \E nombre \in Strings : Consultar(nombre)
    \/ \E nombre \in Nombres : Municipio(nombre)
    \/ \E query \in Strings, max_dist \in MaxDists : Sugerir(query, max_dist)

SpecMatch == InitMatch /\ [][NextMatch]_vars

\* the least element of a non-empty set of indices
Least(S) == CHOOSE i \in S : \A j \in S : i <= j

ExactKeys(t) ==
    {i \in 1..Len(cache_counts) : normalize(cache_counts[i].k) = normalize(t)}

ContainingKeys(t) ==
    {i \in 1..Len(cache_counts) :
        normalize(t) # <<>> /\ Contains(normalize(t), normalize(cache_counts[i].k))}

\* C7 as stated: the lookup returns the value of the first key whose normalized
\* form equals the normalized name, and 0 when no key's normalized form does.
CountLookupExact ==
    fn = "count" =>
        out = IF ExactKeys(arg) # {} THEN cache_counts[Least(ExactKeys(arg))].v ELSE 0

\* C7 amended: the lookup returns the value of the first key whose normalized
\* form equals the normalized name; when there is none, the value of the first
\* key whose normalized form contains the non-empty normalized name; when
\* there is none either, 0.
CountLookup ==
    fn = "count" =>
        out = IF ExactKeys(arg) # {} THEN cache_counts[Least(ExactKeys(arg))].v
              ELSE IF ContainingKeys(arg) # {}
                   THEN cache_counts[Least(ContainingKeys(arg))].v
              ELSE 0

CountLookupWitness ==
    /\ fn = "count"
    /\ Cardinality(ExactKeys(arg)) = 2
    /\ cache_counts[1].k # normalize(arg)
    /\ out = cache_counts[1].v

\* C8: with no duplicate normalized forms among the candidates, resolving the
\* text of a candidate selects that candidate.
ExactResolution ==
    (/\ fn = "resolve"
     /\ \A i, j \in 1..Len(nombres) :
            i # j => normalize(nombres[i]) # normalize(nombres[j])
     /\ \E i \in 1..Len(nombres) : nombres[i] = arg)
    => out.elegido = Some(arg)

Distances(q) == {_levenshtein(q, nombres[i]) : i \in 1..Len(nombres)}

MinDistance(q) == CHOOSE d \in Distances(q) : \A e \in Distances(q) : d <= e

Nearest(q) == {i \in 1..Len(nombres) : _levenshtein(q, nombres[i]) = MinDistance(q)}

\* C9: closest_match returns the candidate at minimum edit distance from the
\* stripped query, the first in list order on ties, when that distance is
\* <= max_dist, and None otherwise; an empty query or list gives None.
FuzzyPass ==
    fn = "closest" =>
        out.best = IF strip(arg) = <<>> \/ nombres = <<>> THEN None
                   ELSE IF MinDistance(strip(arg)) <= out.max_dist
                        THEN Some(nombres[Least(Nearest(strip(arg)))])
                   ELSE None

FuzzyPassWitness ==
    /\ fn = "closest"
    /\ strip(arg) # <<>>
    /\ Len(nombres) = 2
    /\ Cardinality(Nearest(strip(arg))) = 2
    /\ MinDistance(strip(arg)) = 1
    /\ out.best = Some(nombres[1])

-----------------------------------------------------------------------------
(* fetch_counts_from_sheets applied to bounded responses: a refresh cycle is *)
(* suspended at the HTTP request, the response is any header row out of     *)
(* HeaderLists over up to MaxRows data rows out of RowCatalog.              *)

MaxRows == 2

\* header rows, around the configured name "Ab"
HeaderLists ==
    { <<>>,
      << <<"b">> >>,
      << <<"A", "b">> >>,
      << <<"b">>, <<" ", "a", "b">> >>,
      << <<"b", "a", "b">>, <<"b">> >>,
      << <<"a", "a", "b">>, <<"b", "a", "b">> >>,
      << <<"b", "a", "b">>, <<"b", "A", "b">> >>,
      << <<"b", "a", "b">>, <<"a", "b">> >>,
      << <<"A", "b">>, <<"a", "b">> >>,
      << <<"A", "b">>, <<"A", "b">> >> }

\* data rows as csv.reader splits them: an empty line, one field, a blank
\* field, two fields, a trailing empty field, three fields
RowCatalog ==
    { <<>>,
      << <<"a">> >>,
      << <<" ">> >>,
      << <<"b">>, <<"a", " ">> >>,
      << <<"b">>, <<>> >>,
      << <<"a">>, <<"b">>, <<"b">> >> }

ParseInputs ==
    [fieldnames : HeaderLists,
     rows       : UNION {[1..n -> RowCatalog] : n \in 0..MaxRows}]

InitParse ==
    /\ \E prior \in {<<>>, SnapshotOf(<< <<"b">> >>)} :
          /\ cache_counts = prior
          /\ cache_last_fetch = IF prior = <<>> THEN 0 ELSE 1
    /\ clock = T0
    /\ url_set = TRUE
    /\ pc = [p \in Procs |-> IF p = 1 THEN "fetching" ELSE "idle"]
    /\ now = [p \in Procs |-> IF p = 1 THEN T0 ELSE 0]
    /\ ret = [p \in Procs |-> <<>>]
    /\ outcome = [p \in Procs |-> IF p = 1 THEN "pending" ELSE "none"]
    /\ trace = <<"S">>
    /\ fn = "none"
    /\ arg = <<>>
    /\ out = None
    /\ NoChat

\* the 200 response body reaches handler p: fetch_counts_from_sheets parses it
\* and get_counts_cached goes on to its end
ParseAnswer(p, body) ==
    /\ pc[p] = "fetching"
    /\ Finish(p, ParseBody(body))
    /\ trace' = Append(trace, IF ParseBody(body) # <<>> THEN "K" ELSE "F")
    /\ fn' = "parse"
    /\ arg' = body
    /\ out' = [field  |-> FieldActual(body.fieldnames),
               counts |-> ParseBody(body),
               before |-> Cache]
    /\ UNCHANGED <<clock, url_set, chatvars>>

NextParse ==
    \/ \E p \in Procs, body \in ParseInputs : ParseAnswer(p, body)
    \/ \E p \in Procs : FetchFails(p)

SpecParse == InitParse /\ [][NextParse]_vars

RECURSIVE SumValues(_)
SumValues(counts) ==
    IF counts = <<>> THEN 0 ELSE Head(counts).v + SumValues(Tail(counts))

\* C11: whenever the unit column is found, the values of the parsed map add
\* up to the number of data rows of the CSV (every row counted exactly once,
\* the blank ones under the sentinel key).
RowCountConservation ==
    (fn = "parse" /\ out.field # None) => SumValues(out.counts) = Len(arg.rows)

\* the positions of the headers equal to the configured name, case and
\* surrounding whitespace ignored
ExactHeaders(fieldnames) ==
    {i \in 1..Len(fieldnames) :
        strip(lower(fieldnames[i])) = lower(SHEETS_FIELD_MUNICIPIO)}

\* the positions of the headers containing the configured name, case ignored
ContainingHeaders(fieldnames) ==
    {i \in 1..Len(fieldnames) :
        Contains(lower(SHEETS_FIELD_MUNICIPIO), lower(fieldnames[i]))}

\* C12: the unit column is a header equal to the configured name (case and
\* surrounding whitespace ignored) when there is one; otherwise the first
\* header containing the name, case ignored; with neither, the parse yields
\* the empty map and the refresh cycle fails, leaving the cache as it was.
ColumnResolution ==
    fn = "parse" =>
        LET hdr == arg.fieldnames
        IN IF ExactHeaders(hdr) # {}
           THEN \E i \in ExactHeaders(hdr) : out.field = Some(hdr[i])
           ELSE IF ContainingHeaders(hdr) # {}
                THEN out.field = Some(hdr[Least(ContainingHeaders(hdr))])
           ELSE /\ out.field = None
                /\ out.counts = <<>>
                /\ Cache = out.before
                /\ outcome[1] = "failed"

\* the key data row r of the parsed body is counted under
RowKey(r) ==
    LET mun == strip(RowValue(arg.fieldnames, arg.rows[r], out.field[1]))
    IN IF mun = <<>> THEN SinMunicipio ELSE mun

\* the data rows with as many fields as the header row
WellFormed == {r \in 1..Len(arg.rows) : Len(arg.rows[r]) = Len(arg.fieldnames)}

\* the parsed map holds, for every key, the number of rows of R counted under it
CountsExactly(R) ==
    /\ {out.counts[i].k : i \in 1..Len(out.counts)} = {RowKey(r) : r \in R}
    /\ \A i \in 1..Len(out.counts) :
          out.counts[i].v = Cardinality({r \in R : RowKey(r) = out.counts[i].k})

\* C13: the rows whose number of fields differs from the header's are
\* skipped: they contribute to no key of the parsed map, which counts the
\* well-formed rows and only them.
MalformedRowsSkipped ==
    (fn = "parse" /\ out.field # None) => CountsExactly(WellFormed)

-----------------------------------------------------------------------------
(* normalize and _levenshtein applied to bounded inputs: every pair of texts *)
(* up to MaxLen characters; each behaviour applies one function to one pair. *)

\* letters with and without a diacritical mark, in both cases, and the blank
TextAlphabet == {"a", "á", "A", " "}

\* the argument of normalize: None or a string
Texts == {None} \cup {Some(t) : t \in UNION {[1..n -> TextAlphabet] : n \in 0..MaxLen}}

\* (s or "")
OrEmpty(s) == IF s = None THEN <<>> ELSE s[1]

LevAlphabet == {"a", "b", "A"}

LevStrings == UNION {[1..n -> LevAlphabet] : n \in 0..MaxLen}

InitText ==
    /\ cache_counts = <<>>
    /\ cache_last_fetch = 0
    /\ clock = T0
    /\ url_set = TRUE
    /\ pc = [p \in Procs |-> "idle"]
    /\ now = [p \in Procs |-> 0]
    /\ ret = [p \in Procs |-> <<>>]
    /\ outcome = [p \in Procs |-> "none"]
    /\ trace = <<>>
    /\ fn = "none"
    /\ arg = <<>>
    /\ out = None
    /\ NoChat

\* normalize(s) and normalize(t), as the lookups compare them
Normalize(s, t) ==
    /\ fn = "none"
    /\ fn' = "normalize"
    /\ arg' = <<s, t>>
    /\ out' = <<normalize(OrEmpty(s)), normalize(OrEmpty(t))>>
    /\ UNCHANGED <<cachevars, chatvars>>

\* _levenshtein on a pair, both ways round, and on a string and itself
Levenshtein(a, b) ==
    /\ fn = "none"
    /\ fn' = "levenshtein"
    /\ arg' = <<a, b>>
    /\ out' = [ab |-> _levenshtein(a, b),
               ba |-> _levenshtein(b, a),
               aa |-> _levenshtein(a, a)]
    /\ UNCHANGED <<cachevars, chatvars>>

NextText ==
    \/ fn = "none" /\ \E s, t \in Texts : Normalize(s, t)
    \/ fn = "none" /\ \E a, b \in LevStrings : Levenshtein(a, b)

SpecText == InitText /\ [][NextText]_vars

\* the letter under a diacritical mark
BaseChar(c) == IF c = "á" THEN "a" ELSE c

\* every run of blanks cut down to one blank
RECURSIVE Collapse(_)
Collapse(s) ==
    IF Len(s) < 2 THEN s
    ELSE IF s[1] = " " /\ s[2] = " " THEN Collapse(Tail(s))
    ELSE <<s[1]>> \o Collapse(Tail(s))

\* what a text keeps when letter case, diacritical marks, surrounding blanks
\* and the length of the inner runs of blanks are set aside
Fold(s) == Collapse(strip([i \in 1..Len(s) |-> BaseChar(LowerChar(s[i]))]))

\* C14: two texts that differ only in letter case, diacritical marks,
\* surrounding blanks or the length of inner runs of blanks have the same
\* normalize key, and the key of an empty or null text is the empty string.
NormalizationEquivalence ==
    fn = "normalize" =>
        /\ Fold(OrEmpty(arg[1])) = Fold(OrEmpty(arg[2])) => out[1] = out[2]
        /\ OrEmpty(arg[1]) = <<>> => out[1] = <<>>

Min3(x, y, z) == Min2(x, Min2(y, z))

\* the unit-cost edit distance by its recurrence on the first characters
RECURSIVE EditDistance(_, _)
EditDistance(a, b) ==
    IF a = <<>> THEN Len(b)
    ELSE IF b = <<>> THEN Len(a)
    ELSE Min3(EditDistance(Tail(a), b) + 1,
              EditDistance(a, Tail(b)) + 1,
              EditDistance(Tail(a), Tail(b)) + (IF Head(a) = Head(b) THEN 0 ELSE 1))

\* C15: _levenshtein(a, b) is the unit-cost edit distance (insert, delete,
\* substitute) between the lowercased strings; it is the same both ways round
\* and 0 between a string and itself.
LevenshteinClassic ==
    fn = "levenshtein" =>
        /\ out.ab = EditDistance(lower(arg[1]), lower(arg[2]))
        /\ out.ab = out.ba
        /\ out.aa = 0

\* two strings of different lengths, one letter of which differs only in case
LevenshteinClassicWitness ==
    /\ fn = "levenshtein"
    /\ Len(arg[1]) = 3
    /\ Len(arg[2]) = 2
    /\ arg[1][1] = "A"
    /\ arg[2][1] = "a"
    /\ out.ab = 2
    /\ out.ba = 2

-----------------------------------------------------------------------------
(* The webhook: "municipio X" messages, /reset messages and the              *)
(* "Corregir municipio" button, handled by concurrent handlers. A handler    *)
(* runs without interruption from one await of the HTTP request to the next. *)

MaxMsgs == 3

\* chat ids of the updates (an update without chat id is dropped at line 320)
Chats == {1, 2}

\* values of ADMIN_CHAT_ID: 0 (not configured) or the id of chat 1
AdminIds == {0, 1}

\* the texts after the word "municipio", as extract_municipio hands them on
ChatNombres == { <<"a">>, <<"b">> }

\* the handlers that take updates
Handlers == {1, 2}

\* SELECT municipio FROM user_municipio WHERE chat_id = ?  (fetchone)
get_user_municipio(tbl, chat) ==
    IF \E r \in tbl : r.chat_id = chat
    THEN Some((CHOOSE r \in tbl : r.chat_id = chat).municipio)
    ELSE None

\* INSERT OR REPLACE: the row of the chat overwritten
InsertOrReplace(tbl, chat, municipio) ==
    {r \in tbl : r.chat_id # chat} \cup {[chat_id |-> chat, municipio |-> municipio]}

\* INSERT OR IGNORE INTO user_municipio: chat_id is the primary key
set_user_municipio(tbl, chat, municipio) ==
    IF \E r \in tbl : r.chat_id = chat THEN tbl
    ELSE tbl \cup {[chat_id |-> chat, municipio |-> municipio]}

\* DELETE FROM user_municipio WHERE chat_id = ?
reset_user_municipio(tbl, chat) == {r \in tbl : r.chat_id # chat}

\* every chat passes for the administrator
IsAdminAnyone(chat) == TRUE

\* the negation of the test of line 391
IsAdmin(chat) == ~(admin = 0 \/ chat # admin)

\* the refresh test of get_counts_cached() on cache state c at time t
NeedsRefreshOn(c, t) == (t - c.last > SHEETS_CACHE_TTL) \/ c.counts = <<>>

Msg(chat, kind, mun) == Some([chat |-> chat, kind |-> kind, mun |-> mun])

\* the handler sends msg and returns; c and tbl are the cache and the table
\* it leaves behind
Return(p, c, tbl, msg) ==
    /\ cache_counts' = c.counts
    /\ cache_last_fetch' = c.last
    /\ pc' = [pc EXCEPT ![p] = "idle"]
    /\ now' = [now EXCEPT ![p] = 0]
    /\ h' = [h EXCEPT ![p] = IdleH]
    /\ table' = tbl
    /\ sent' = msg

\* get_counts_cached reaches `await fetch_counts_from_sheets()` at call site
\* `site` of the municipio branch: the handler is suspended with its locals
Suspend(p, site, loc, c) ==
    /\ cache_counts' = c.counts
    /\ cache_last_fetch' = c.last
    /\ pc' = [pc EXCEPT ![p] = "fetching"]
    /\ now' = [now EXCEPT ![p] = clock]
    /\ h' = [h EXCEPT ![p] = [loc EXCEPT !.at = site]]
    /\ table' = table
    /\ sent' = None

\* lines 471-477, after get_municipio_count(elegido) has returned
Resume470(p, loc, c) ==
    Return(p, c, set_user_municipio(table, loc.chat, loc.elegido[1]),
           Msg(loc.chat, "registre", loc.elegido[1]))

\* lines 460-467, after get_municipio_count(ya_registrado) has returned
Resume459(p, loc, c) ==
    Return(p, c, table, Msg(loc.chat, "registrado", loc.ya[1]))

\* lines 428-470: the choice of elegido among the keys of the snapshot, then
\* the call of get_municipio_count, which suspends when it has to fetch
Resume427(p, loc, c) ==
    LET elegido == Resolve(loc.nombre, Keys(c.counts)).elegido
        loc2    == [loc EXCEPT !.elegido = elegido]
    IN IF elegido = None
       THEN Return(p, c, table, Msg(loc.chat, "no_encontre", loc.nombre))
       ELSE IF loc.ya # None
            THEN IF NeedsRefreshOn(c, clock) THEN Suspend(p, "459", loc2, c)
                 ELSE Resume459(p, loc2, c)
       ELSE IF NeedsRefreshOn(c, clock) THEN Suspend(p, "470", loc2, c)
            ELSE Resume470(p, loc2, c)

\* the handler goes on after the get_counts_cached call of its call site has
\* returned, leaving cache state c
Resume(p, loc, c) ==
    IF loc.at = "427" THEN Resume427(p, loc, c)
    ELSE IF loc.at = "459" THEN Resume459(p, loc, c)
    ELSE Resume470(p, loc, c)

\* a "municipio <nombre>" message of chat reaches handler p
MunicipioMsg(p, chat, nombre) ==
    /\ h[p].at = "idle"
    /\ pc[p] = "idle"
    /\ msgs < MaxMsgs
    /\ msgs' = msgs + 1
    /\ IF ~url_set
       THEN Return(p, Cache, table, Msg(chat, "sin_hoja", <<>>))
       ELSE LET loc == [at |-> "427", chat |-> chat, nombre |-> nombre,
                        ya |-> get_user_municipio(table, chat), elegido |-> None]
            IN IF NeedsRefreshOn(Cache, clock) THEN Suspend(p, "427", loc, Cache)
               ELSE Resume427(p, loc, Cache)
    /\ UNCHANGED <<clock, url_set, ret, outcome, trace, matchvars, admin>>

\* the HTTP request of suspended handler p ends: d is the parsed map, empty on
\* error, timeout, non-200 status or a parse without result
FetchEnds(p, d) ==
    /\ pc[p] = "fetching"
    /\ h[p].at # "idle"
    /\ Resume(p, h[p], Commit(Cache, d, now[p]))
    /\ UNCHANGED <<clock, url_set, ret, outcome, trace, matchvars, admin, msgs>>

\* a /reset message of chat reaches handler p
ResetMsg(p, chat) ==
    /\ h[p].at = "idle"
    /\ pc[p] = "idle"
    /\ msgs < MaxMsgs
    /\ msgs' = msgs + 1
    /\ IF ~IsAdmin(chat)
       THEN Return(p, Cache, table, Msg(chat, "solo_admin", <<>>))
       ELSE Return(p, Cache, reset_user_municipio(table, chat),
                   Msg(chat, IF get_user_municipio(table, chat) # None
                             THEN "restablecido" ELSE "no_tenias", <<>>))
    /\ UNCHANGED <<clock, url_set, ret, outcome, trace, matchvars, admin>>

\* the "Corregir municipio" button (callback data invalid_reset) pressed in chat
InvalidResetCallback(p, chat) ==
    /\ h[p].at = "idle"
    /\ pc[p] = "idle"
    /\ msgs < MaxMsgs
    /\ msgs' = msgs + 1
    /\ Return(p, Cache, reset_user_municipio(table, chat), Msg(chat, "listo", <<>>))
    /\ UNCHANGED <<clock, url_set, ret, outcome, trace, matchvars, admin>>

\* time passes
TickChat ==
    /\ clock < T0 + MaxTicks
    /\ clock' = clock + 1
    /\ sent' = None
    /\ UNCHANGED <<cache_counts, cache_last_fetch, url_set, pc, now, ret, outcome,
                   trace, matchvars, table, admin, h, msgs>>

InitChat ==
    /\ cache_counts = <<>>
    /\ cache_last_fetch = 0
    /\ clock = T0
    /\ url_set \in BOOLEAN
    /\ pc = [p \in Procs |-> "idle"]
    /\ now = [p \in Procs |-> 0]
    /\ ret = [p \in Procs |-> <<>>]
    /\ outcome = [p \in Procs |-> "none"]
    /\ trace = <<>>
    /\ fn = "none"
    /\ arg = <<>>
    /\ out = None
    /\ table = {}
    /\ admin \in AdminIds
    /\ h = [p \in Procs |-> IdleH]
    /\ msgs = 0
    /\ sent = None
    /\ secret = <<>>
    /\ header = None

\* no secret is configured here: every update goes past the test of line 274
NextChat ==
    \/ \E p \in Handlers, chat \in Chats, nombre \in ChatNombres :
          MunicipioMsg(p, chat, nombre) /\ UNCHANGED gatevars
    \/ \E p \in Handlers, d \in FetchResults \cup {<<>>} :
          FetchEnds(p, d) /\ UNCHANGED gatevars
    \/ \E p \in Handlers, chat \in Chats : ResetMsg(p, chat) /\ UNCHANGED gatevars
    \/ \E p \in Handlers, chat \in Chats :
          InvalidResetCallback(p, chat) /\ UNCHANGED gatevars
    \/ TickChat /\ UNCHANGED gatevars

SpecChat == InitChat /\ [][NextChat]_vars

\* the municipality stored for chat, None when there is none
Stored(chat) == get_user_municipio(table, chat)

\* C17: each chat has at most one stored municipality; a stored municipality
\* is never replaced by another one, whatever "municipio X" messages arrive,
\* and it goes away only by a reset of that chat (/reset of the administrator
\* or the "Corregir municipio" button).
OneMunicipioPerChat ==
    [][\A chat \in Chats :
          /\ Cardinality({r \in table' : r.chat_id = chat}) <= 1
          /\ (Stored(chat) # None /\ Stored(chat)' # Stored(chat)) =>
                /\ Stored(chat)' = None
                /\ \E p \in Handlers :
                      ResetMsg(p, chat) \/ InvalidResetCallback(p, chat)]_vars

\* a second, concurrent "municipio" message of a chat has named another
\* municipality and the first one is still the stored one
OneMunicipioPerChatWitness ==
    /\ sent # None
    /\ sent[1].kind = "registre"
    /\ Stored(sent[1].chat) # None
    /\ Stored(sent[1].chat) # Some(sent[1].mun)

\* C18: whenever a handler sends the confirmation "Registré X para este
\* chat", the municipality stored for that chat at that moment is X.
TruthfulConfirmation ==
    (sent # None /\ sent[1].kind = "registre") =>
        Stored(sent[1].chat) = Some(sent[1].mun)

\* C20: a /reset from a chat other than ADMIN_CHAT_ID, or from any chat when
\* ADMIN_CHAT_ID is 0, changes no stored registration; a /reset from the
\* administrator's chat removes that chat's registration and no other.
AdminOnlyReset ==
    [][\A p \in Handlers, chat \in Chats :
          ResetMsg(p, chat) =>
              IF admin = 0 \/ chat # admin
              THEN table' = table
              ELSE /\ Stored(chat)' = None
                   /\ \A other \in Chats \ {chat} : Stored(other)' = Stored(other)
                   /\ table' \subseteq table]_vars

\* the administrator's registration has just been removed by /reset and the
\* other chat's registration is still there
AdminOnlyResetWitness ==
    /\ admin # 0
    /\ sent = Msg(admin, "restablecido", <<>>)
    /\ Stored(admin) = None
    /\ \E other \in Chats \ {admin} : Stored(other) # None

-----------------------------------------------------------------------------
(* The webhook behind its secret test: every update carries, or lacks, the  *)
(* X-Telegram-Bot-Api-Secret-Token header.                                  *)

\* values of WEBHOOK_SECRET: not configured, or configured
Secrets == { <<>>, <<"a">> }

\* the header: missing, the secret, another value
Tokens == { None, Some(<<"a">>), Some(<<"b">>) }

\* only a missing header turned away
RejectsMissingOnly(token) == secret # <<>> /\ token = None

\* WEBHOOK_SECRET and x_telegram_bot_api_secret_token != WEBHOOK_SECRET
Rejects(token) == secret # <<>> /\ token # Some(secret)

\* the update is answered {"ok": true} and dropped
Acknowledge(p) ==
    /\ h[p].at = "idle"
    /\ pc[p] = "idle"
    /\ msgs < MaxMsgs
    /\ msgs' = msgs + 1
    /\ Return(p, Cache, table, None)
    /\ UNCHANGED <<clock, url_set, ret, outcome, trace, matchvars, admin>>

\* POST /webhook reaches handler p with header token; `handled` is what the
\* handler does with the update once it is past the secret test
Webhook(p, token, handled) ==
    /\ IF Rejects(token) THEN Acknowledge(p) ELSE handled
    /\ header' = Some(token)
    /\ secret' = secret

InitGate ==
    /\ cache_counts = <<>>
    /\ cache_last_fetch = 0
    /\ clock = T0
    /\ url_set = TRUE
    /\ pc = [p \in Procs |-> "idle"]
    /\ now = [p \in Procs |-> 0]
    /\ ret = [p \in Procs |-> <<>>]
    /\ outcome = [p \in Procs |-> "none"]
    /\ trace = <<>>
    /\ fn = "none"
    /\ arg = <<>>
    /\ out = None
    /\ table = {}
    /\ admin = 1
    /\ h = [p \in Procs |-> IdleH]
    /\ msgs = 0
    /\ sent = None
    /\ secret \in Secrets
    /\ header = None

NextGate ==
    \/ \E p \in Handlers, token \in Tokens, chat \in Chats, nombre \in ChatNombres :
          Webhook(p, token, MunicipioMsg(p, chat, nombre))
    \/ \E p \in Handlers, token \in Tokens, chat \in Chats :
          Webhook(p, token, ResetMsg(p, chat))
    \/ \E p \in Handlers, token \in Tokens, chat \in Chats :
          Webhook(p, token, InvalidResetCallback(p, chat))
    \/ \E p \in Handlers, d \in FetchResults \cup {<<>>} :
          FetchEnds(p, d) /\ header' = None /\ secret' = secret
    \/ TickChat /\ header' = None /\ secret' = secret

SpecGate == InitGate /\ [][NextGate]_vars

\* C21: with WEBHOOK_SECRET configured, an update whose secret-token header
\* is missing or different changes nothing: no registration is created or
\* deleted, snapshot and timestamp stay, no fetch is started, no handler is
\* left suspended by it and no message is sent.
SecretGate ==
    [][(header' # None /\ secret # <<>> /\ header'[1] # Some(secret)) =>
          /\ table' = table
          /\ CacheUnchanged
          /\ pc' = pc
          /\ h' = h
          /\ sent' = None]_vars

\* an update without the header has just been dropped while a registration
\* is stored and another handler is suspended at the fetch
SecretGateWitness ==
    /\ secret # <<>>
    /\ header # None
    /\ header[1] = None
    /\ table # {}
    /\ \E p \in Handlers : pc[p] = "fetching"
    /\ sent = None

====
